---- MODULE Spec2Model ----
(***************************************************************************)
(* rusttex: ContentBuilder (src/src/lib.rs) and its value objects          *)
(* (src/src/models.rs, src/src/utils.rs).                                  *)
(*                                                                         *)
(* Text is a TLA+ string; "\\" is one backslash and "\n" one newline.      *)
(* A builder is a record with the single field content, as in the source.  *)
(* A closure argument is run as the source runs it: merge_str makes a new  *)
(* builder, the closure's calls act on it, and its content is the result.  *)
(* The builders in existence form the sequence stack: stack[1] is the      *)
(* caller's builder, stack[k+1] the builder of the closure that a call on  *)
(* stack[k] is waiting for.                                                *)
(***************************************************************************)
EXTENDS Integers, Sequences, FiniteSets, TLC

VARIABLES stack, budget, trace, last

vars == <<stack, budget, trace, last>>

(***************************************************************************)
(* Bounds                                                                  *)
(***************************************************************************)
\* calls made in one run, the calls made inside closures included
MaxOps == 2
\* calls made in one run of SpecPreamble
MaxPreambleOps == 4

(***************************************************************************)
(* Text helpers                                                            *)
(***************************************************************************)
StartsWith(s, p) == Len(p) <= Len(s) /\ SubSeq(s, 1, Len(p)) = p

EndsWith(s, p) == Len(p) <= Len(s) /\ SubSeq(s, Len(s) - Len(p) + 1, Len(s)) = p

\* the text of s after its first n characters
Drop(s, n) == SubSeq(s, n + 1, Len(s))

\* how many times the one-character string ch occurs in s
Count(s, ch) == Cardinality({i \in 1..Len(s) : SubSeq(s, i, i) = ch})

(***************************************************************************)
(* Argument values                                                         *)
(***************************************************************************)
\* a &str argument
Lit(s) == [some |-> TRUE, fn |-> FALSE, s |-> s]

\* a closure argument FnOnce(&mut ContentBuilder); its body is the calls
\* made on the nested builder until it returns
Fn == [some |-> TRUE, fn |-> TRUE, s |-> ""]

\* Option::None and Option::Some of a string
None == [some |-> FALSE, fn |-> FALSE, s |-> ""]

Some(s) == [some |-> TRUE, fn |-> FALSE, s |-> s]

(***************************************************************************)
(* StringOrBuilder and the builder's constructor and getter                *)
(***************************************************************************)
\* a leading blank of the text is dropped
merge_str_trim_start(s) ==
    IF Len(s) > 0 /\ SubSeq(s, 1, 1) = " " THEN SubSeq(s, 2, Len(s)) ELSE s

\* impl StringOrBuilder for &str: self.to_string()
merge_str(s) == s

\* a builder that starts with a comment line of its own
new_headed == [content |-> "%\n"]

\* ContentBuilder::new
new == [content |-> ""]

\* ContentBuilder::build_document
build_document(b) == b.content

\* the closure's document is dropped: the text of an unused builder
merge_str_builder_unrun(b) == new.content

\* impl StringOrBuilder for F, after self(&mut builder) has run on the
\* builder b that merge_str made: builder.build_document().to_string()
merge_str_builder(b) == build_document(b)

(***************************************************************************)
(* Enumerations and their keywords (models.rs)                             *)
(***************************************************************************)
DocumentClassTags == {"Article", "Book", "Letter", "Report", "Slides"}

DocumentClass(tag) == [tag |-> tag, s |-> ""]

DocumentClassCustom(s) == [tag |-> "Custom", s |-> s]

DocumentClass_to_string(dc) ==
    CASE dc.tag = "Article" -> "article"
      [] dc.tag = "Book" -> "book"
      [] dc.tag = "Letter" -> "letter"
      [] dc.tag = "Report" -> "report"
      [] dc.tag = "Slides" -> "slides"
      [] dc.tag = "Custom" -> dc.s

DocumentClassOptionsTags ==
    {"A4Paper", "A5Paper", "B5Paper", "ExecutivePaper", "LegalPaper",
     "LetterPaper", "Draft", "Final", "Fleqn", "Landscape", "Leqno",
     "OpenBib", "TitlePage", "NotTitlePage", "OneColumn", "TwoColumn",
     "OneSide", "TwoSide", "OpenRight", "OpenAny"}

DocumentClassOptions_to_string(o) ==
    CASE o.tag = "A4Paper" -> "a4paper"
      [] o.tag = "A5Paper" -> "a5paper"
      [] o.tag = "B5Paper" -> "b5paper"
      [] o.tag = "ExecutivePaper" -> "executivepaper"
      [] o.tag = "LegalPaper" -> "legalpaper"
      [] o.tag = "LetterPaper" -> "letterpaper"
      [] o.tag = "Draft" -> "draft"
      [] o.tag = "Final" -> "final"
      [] o.tag = "Fleqn" -> "fleqn"
      [] o.tag = "Landscape" -> "landscape"
      [] o.tag = "Leqno" -> "leqno"
      [] o.tag = "OpenBib" -> "openbib"
      [] o.tag = "TitlePage" -> "titlepage"
      [] o.tag = "NotTitlePage" -> "notitlepage"
      [] o.tag = "OneColumn" -> "onecolumn"
      [] o.tag = "TwoColumn" -> "twocolumn"
      [] o.tag = "OneSide" -> "oneside"
      [] o.tag = "TwoSide" -> "twoside"
      [] o.tag = "OpenRight" -> "openright"
      [] o.tag = "OpenAny" -> "openany"
      [] o.tag = "Custom" -> o.s

ColorModelTags == {"CMYK", "Gray", "RGB", "RGBFull", "Named"}

\* RGB and RGBFull are given the same keyword
ColorModel_to_string_lower(m) ==
    CASE m = "CMYK" -> "cmyk"
      [] m = "Gray" -> "gray"
      [] m = "RGB" -> "rgb"
      [] m = "RGBFull" -> "rgb"
      [] m = "Named" -> "named"

ColorModel_to_string(m) ==
    CASE m = "CMYK" -> "cmyk"
      [] m = "Gray" -> "gray"
      [] m = "RGB" -> "rgb"
      [] m = "RGBFull" -> "RGB"
      [] m = "Named" -> "named"

\* Custom gives a keyword of its own, not the string it carries
FileContentsOption_to_string_fixed(o) ==
    CASE o.tag = "Force" -> "force"
      [] o.tag = "Overwrite" -> "overwrite"
      [] o.tag = "NoHeader" -> "noheader"
      [] o.tag = "NoSearch" -> "nosearch"
      [] o.tag = "Custom" -> "custom"

FileContentsOption_to_string(o) ==
    CASE o.tag = "Force" -> "force"
      [] o.tag = "Overwrite" -> "overwrite"
      [] o.tag = "NoHeader" -> "noheader"
      [] o.tag = "NoSearch" -> "nosearch"
      [] o.tag = "Custom" -> o.s

\* the variants of Environment that carry no parameters
PlainEnvironments ==
    {"Abstract", "Center", "Description", "DisplayMath", "Document",
     "Enumerate", "EqnArray", "Equation", "FlushLeft", "FlushRight",
     "Itemize", "Math", "Quotation", "Quote", "Tabbing", "Theorem",
     "TitlePage", "TrivList", "Verbatim", "Verse"}

\* the variants of Environment: those without parameters and the nine
\* that borrow a parameter object
EnvironmentTags ==
    PlainEnvironments
        \cup {"Array", "Figure", "FileContents", "List", "Minipage",
              "Picture", "Table", "Tabular", "TheBibliography"}

Environment_to_string(e) ==
    CASE e.tag = "Abstract" -> "abstract"
      [] e.tag = "Array" -> "array"
      [] e.tag = "Center" -> "center"
      [] e.tag = "Description" -> "description"
      [] e.tag = "DisplayMath" -> "displaymath"
      [] e.tag = "Document" -> "document"
      [] e.tag = "Enumerate" -> "enumerate"
      [] e.tag = "EqnArray" -> "eqnarray"
      [] e.tag = "Equation" -> "equation"
      [] e.tag = "Figure" -> "figure"
      [] e.tag = "FileContents" -> "filecontents"
      [] e.tag = "FlushLeft" -> "flushleft"
      [] e.tag = "FlushRight" -> "flushright"
      [] e.tag = "Itemize" -> "itemize"
      [] e.tag = "List" -> "list"
      [] e.tag = "Math" -> "math"
      [] e.tag = "Minipage" -> "minipage"
      [] e.tag = "Picture" -> "picture"
      [] e.tag = "Quotation" -> "quotation"
      [] e.tag = "Quote" -> "quote"
      [] e.tag = "Tabbing" -> "tabbing"
      [] e.tag = "Table" -> "table"
      [] e.tag = "Tabular" -> "tabular"
      [] e.tag = "TheBibliography" -> "thebibliography"
      [] e.tag = "Theorem" -> "theorem"
      [] e.tag = "TitlePage" -> "titlepage"
      [] e.tag = "TrivList" -> "trivlist"
      [] e.tag = "Verbatim" -> "verbatim"
      [] e.tag = "Verse" -> "verse"

(***************************************************************************)
(* Parameter objects (models.rs).  Every field is a string or an Option    *)
(* of a string; a constructor applies merge_str to each argument.          *)
(***************************************************************************)
OptMerge(o) == IF o.some THEN Some(merge_str(o.s)) ELSE None

NoParams == [cols |-> "", pos |-> None]

ArrayParams_new(cols, pos) == [pos |-> OptMerge(pos), cols |-> merge_str(cols)]

FigureParams_new(placement) == [placement |-> merge_str(placement)]

FileContentsParams_new(filename, option) ==
    [filename |-> merge_str(filename), option |-> option]

ListParams_new(labeling, spacing) ==
    [labeling |-> merge_str(labeling), spacing |-> merge_str(spacing)]

MinipageParams_new(position, height, inner_pos, width) ==
    [position |-> OptMerge(position), height |-> OptMerge(height),
     inner_pos |-> OptMerge(inner_pos), width |-> merge_str(width)]

PictureParams_new(size, offset) ==
    [size |-> <<merge_str(size[1]), merge_str(size[2])>>,
     offset |-> IF offset.some
                THEN [some |-> TRUE,
                      x |-> merge_str(offset.x), y |-> merge_str(offset.y)]
                ELSE [some |-> FALSE, x |-> "", y |-> ""]]

TableParams_new(placement) == [placement |-> OptMerge(placement)]

TabularParams_new(cols, pos) == [pos |-> OptMerge(pos), cols |-> merge_str(cols)]

TheBubliographyParams_new(widest_label) ==
    [widest_label |-> merge_str(widest_label)]

\* an Environment value: the variant and, for the variants that have one,
\* the parameter object it borrows
Environment(tag, params) == [tag |-> tag, params |-> params]

(***************************************************************************)
(* The text each method pushes onto self.content (lib.rs), as a function   *)
(* of its arguments once every merge_str has returned.                     *)
(***************************************************************************)
\* to_string of one Box<dyn ToString> made by options!: a &str gives
\* itself, a DocumentClassOptions its keyword
Opt(s) == [ty |-> "str", tag |-> "", s |-> s]

OptEnum(tag) == [ty |-> "DocumentClassOptions", tag |-> tag, s |-> ""]

OptCustom(s) == [ty |-> "DocumentClassOptions", tag |-> "Custom", s |-> s]

option_to_string(o) ==
    IF o.ty = "str" THEN o.s ELSE DocumentClassOptions_to_string(o)

\* options.iter().map(|o| o.to_string()).collect::<Vec<String>>()
RECURSIVE map_to_string(_)
map_to_string(options) ==
    IF options = <<>> THEN <<>>
    ELSE <<option_to_string(Head(options))>> \o map_to_string(Tail(options))

\* a separator after every item, the last one included
RECURSIVE join_trailing(_, _)
join_trailing(strs, sep) ==
    IF strs = <<>> THEN "" ELSE strs[1] \o sep \o join_trailing(Tail(strs), sep)

\* Vec<String>::join(sep)
RECURSIVE join(_, _)
join(strs, sep) ==
    IF strs = <<>> THEN ""
    ELSE IF Len(strs) = 1 THEN strs[1]
    ELSE strs[1] \o sep \o join(Tail(strs), sep)

\* no test of options.is_empty(): the bracket pair is always written
set_document_class_bracketed(document_class, options) ==
    "\\documentclass[" \o join(map_to_string(options), ",") \o "]{"
        \o DocumentClass_to_string(document_class) \o "}\n"

set_document_class_text(document_class, options) ==
    IF options = <<>>
    THEN "\\documentclass{" \o DocumentClass_to_string(document_class) \o "}\n"
    ELSE "\\documentclass[" \o join(map_to_string(options), ",") \o "]{"
             \o DocumentClass_to_string(document_class) \o "}\n"

use_package_text(package, options) ==
    IF options = <<>>
    THEN "\\usepackage{" \o package \o "}\n"
    ELSE "\\usepackage[" \o join(map_to_string(options), ",") \o "]{"
             \o package \o "}\n"

add_literal_text(text) == text

begin_document_text == "\\begin{document}\n"

\* the line's newline left out
end_document_unterminated == "\\end{document}"

end_document_text == "\\end{document}\n"

maketitle_text == "\\maketitle\n"

\* the command \newline in place of the two backslashes
new_line_newline == "\\newline\n"

new_line_text == "\\\\\n"

clear_page_text == "\\clearpage\n"

new_page_text == "\\newpage\n"

line_break_text == "\\linebreak\n"

page_break_text == "\\pagebreak\n"

no_indent_text == "\\noindent\n"

centering_text == "\\centering\n"

title_text(s) == "\\title{" \o s \o "}\n"

author_text(s) == "\\author{" \o s \o "}\n"

text_bold_text(s) == "\\textbf{" \o s \o "}"

text_italic_text(s) == "\\textit{" \o s \o "}"

text_underline_text(s) == "\\underline{" \o s \o "}"

label_text(s) == "\\label{" \o s \o "}\n"

section_text(s) == "\\section{" \o s \o "}\n"

subsection_text(s) == "\\subsection{" \o s \o "}\n"

subsubsection_text(s) == "\\subsubsection{" \o s \o "}\n"

paragraph_text(s) == "\\paragraph{" \o s \o "}\n"

subparagraph_text(s) == "\\subparagraph{" \o s \o "}\n"

\* the footnote ends its line
footnote_text_line(s) == "\\footnote{" \o s \o "}\n"

footnote_text(s) == "\\footnote{" \o s \o "}"

ref_label_text(s) == "\\ref{" \o s \o "}"

hspace_text(s) == "\\hspace{" \o s \o "}"

vspace_text(s) == "\\vspace{" \o s \o "}"

include_text(s) == "\\include{" \o s \o "}\n"

input_text(s) == "\\input{" \o s \o "}\n"

itemize_text(s) == "\\item {" \o s \o "}\n"

\* the bracket of the subcitation is written after the braced key
cite_text_after(subcitation, citation) ==
    LET subcitation_str == IF subcitation.some
                           THEN "[" \o subcitation.s \o "]" ELSE ""
    IN  "\\cite{" \o citation \o "}" \o subcitation_str

\* subcitation is None or Some of the merged text
cite_text(subcitation, citation) ==
    LET subcitation_str == IF subcitation.some
                           THEN "[" \o subcitation.s \o "]" ELSE ""
    IN  "\\cite" \o subcitation_str \o "{" \o citation \o "}"

\* color_model is None or Some of a ColorModel tag
text_color_text(color_model, color, text) ==
    LET color_model_str == IF color_model.some
                           THEN "[" \o ColorModel_to_string(color_model.s) \o "]"
                           ELSE ""
    IN  "\\textcolor" \o color_model_str \o "{" \o color \o "}{" \o text \o "}"

\* env: the first push_str of each branch of the match, k being
\* env.to_string()
env_begin_plain(k) == "\\begin{" \o k \o "}\n"

\* a position that is None is written as an empty bracket pair
env_begin_Array_empty(k, params) ==
    LET pos == IF params.pos.some
               THEN "[" \o merge_str(params.pos.s) \o "]" ELSE "[]"
    IN  "\\begin{" \o k \o "}" \o pos \o "{" \o params.cols \o "}\n"

env_begin_Array(k, params) ==
    LET pos == IF params.pos.some
               THEN "[" \o merge_str(params.pos.s) \o "]" ELSE ""
    IN  "\\begin{" \o k \o "}" \o pos \o "{" \o params.cols \o "}\n"

env_begin_Figure(k, params) == "\\begin{" \o k \o "}" \o params.placement \o "\n"

env_begin_FileContents(k, params) ==
    LET options == IF params.option.some
                   THEN "[" \o FileContentsOption_to_string(params.option) \o "]"
                   ELSE ""
    IN  "\\begin{" \o k \o "}" \o options \o "{" \o params.filename \o "}\n"

env_begin_List(k, params) ==
    "\\begin{" \o k \o "}" \o params.labeling \o params.spacing \o "\n"

\* an argument that is None is left out, as in the other branches
env_begin_Minipage_omit(k, params) ==
    LET position == IF params.position.some
                    THEN "[" \o merge_str(params.position.s) \o "]" ELSE ""
        height == IF params.height.some
                  THEN "[" \o merge_str(params.height.s) \o "]" ELSE ""
        inner_pos == IF params.inner_pos.some
                     THEN "[" \o merge_str(params.inner_pos.s) \o "]" ELSE ""
    IN  "\\begin{" \o k \o "}" \o position \o height \o inner_pos
            \o "{" \o params.width \o "}\n"

env_begin_Minipage(k, params) ==
    LET position == IF params.position.some
                    THEN "[" \o merge_str(params.position.s) \o "]" ELSE "[]"
        height == IF params.height.some
                  THEN "[" \o merge_str(params.height.s) \o "]" ELSE "[]"
        inner_pos == IF params.inner_pos.some
                     THEN "[" \o merge_str(params.inner_pos.s) \o "]" ELSE "[]"
    IN  "\\begin{" \o k \o "}" \o position \o height \o inner_pos
            \o "{" \o params.width \o "}\n"

\* the offset pair is written before the size pair
env_begin_Picture_swapped(k, params) ==
    LET size == "(" \o params.size[1] \o "," \o params.size[2] \o ")"
        offset == IF params.offset.some
                  THEN "(" \o params.offset.x \o "," \o params.offset.y \o ")"
                  ELSE ""
    IN  "\\begin{" \o k \o "}" \o offset \o size \o "\n"

env_begin_Picture(k, params) ==
    LET size == "(" \o params.size[1] \o "," \o params.size[2] \o ")"
        offset == IF params.offset.some
                  THEN "(" \o params.offset.x \o "," \o params.offset.y \o ")"
                  ELSE ""
    IN  "\\begin{" \o k \o "}" \o size \o offset \o "\n"

env_begin_Table(k, params) ==
    LET placement == IF params.placement.some
                     THEN "[" \o merge_str(params.placement.s) \o "]" ELSE ""
    IN  "\\begin{" \o k \o "}" \o placement \o "\n"

env_begin_Tabular(k, params) ==
    LET pos == IF params.pos.some
               THEN "[" \o merge_str(params.pos.s) \o "]" ELSE ""
    IN  "\\begin{" \o k \o "}" \o pos \o "{" \o params.cols \o "}\n"

env_begin_TheBibliography(k, params) ==
    "\\begin{" \o k \o "}{" \o params.widest_label \o "}\n"

\* env: the match on the variant
env_begin(e) ==
    LET k == Environment_to_string(e)
    IN  CASE e.tag \in PlainEnvironments -> env_begin_plain(k)
          [] e.tag = "Array" -> env_begin_Array(k, e.params)
          [] e.tag = "Figure" -> env_begin_Figure(k, e.params)
          [] e.tag = "FileContents" -> env_begin_FileContents(k, e.params)
          [] e.tag = "List" -> env_begin_List(k, e.params)
          [] e.tag = "Minipage" -> env_begin_Minipage(k, e.params)
          [] e.tag = "Picture" -> env_begin_Picture(k, e.params)
          [] e.tag = "Table" -> env_begin_Table(k, e.params)
          [] e.tag = "Tabular" -> env_begin_Tabular(k, e.params)
          [] e.tag = "TheBibliography" -> env_begin_TheBibliography(k, e.params)

\* the newline is added only to content that does not end in one
env_content_dedup(s) == IF EndsWith(s, "\n") THEN s ELSE s \o "\n"

\* env: the second push_str, format!("{}\n", content.merge_str())
env_content(s) == s \o "\n"

\* the \begin line written a second time
env_end_begin(e) == "\\begin{" \o Environment_to_string(e) \o "}\n"

\* env: the third push_str
env_end(e) == "\\end{" \o Environment_to_string(e) \o "}\n"

(***************************************************************************)
(* State                                                                   *)
(*   stack   the builders: stack[k].content is builder k's buffer and      *)
(*           stack[k].wait the call on builder k that is waiting for the   *)
(*           closure running on builder k+1 (NoWait for the last one)      *)
(*   budget  calls the run may still make                                  *)
(*   trace   the calls made on stack[1], in call order, with their inputs  *)
(*   last    the call that completed last: its inputs, the builder it was  *)
(*           made on, that builder's buffer before and after it, and for   *)
(*           each closure argument the buffer of its nested builder when   *)
(*           the closure returned                                          *)
(***************************************************************************)
\* the inputs of a call that are not StringOrBuilder arguments
X0 == [env |-> Environment("", NoParams), color_model |-> None,
       document_class |-> DocumentClass(""), options |-> <<>>,
       package |-> "", text |-> ""]

NoWait == [op |-> "", x |-> X0, args |-> <<>>, done |-> <<>>, rest |-> <<>>,
           before |-> "", nested |-> <<>>]

NoCall == [op |-> "", x |-> X0, args |-> <<>>, done |-> <<>>, nested |-> <<>>,
           before |-> "", after |-> "", depth |-> 0]

Top == stack[Len(stack)]

\* a \documentclass line takes the place of the one the buffer begins with
push_str_one_class(c, s) ==
    IF StartsWith(c, "\\documentclass") /\ StartsWith(s, "\\documentclass")
    THEN s ELSE c \o s

\* the buffer is assigned, not appended to
push_str_assign(c, s) == s

\* self.content.push_str(s)
push_str(c, s) == c \o s

\* the buffer c after push_str of each text of texts, in order
RECURSIVE PushAll(_, _)
PushAll(c, texts) ==
    IF texts = <<>> THEN c ELSE PushAll(push_str(c, Head(texts)), Tail(texts))

\* the buffer of the caller's builder
content == stack[1].content

\* merge_str of the leading &str arguments of p.rest, in argument order,
\* up to the first closure
RECURSIVE Eval(_)
Eval(p) ==
    IF p.rest = <<>> \/ Head(p.rest).fn THEN p
    ELSE Eval([p EXCEPT !.done = Append(@, OptMerge(Head(p.rest))),
                        !.nested = Append(@, ""),
                        !.rest = Tail(@)])

\* the text of the push_str calls a method makes once all its arguments
\* are merged, in order
Pushes(p) ==
    CASE p.op = "set_document_class" ->
             <<set_document_class_text(p.x.document_class, p.x.options)>>
      [] p.op = "use_package" -> <<use_package_text(p.x.package, p.x.options)>>
      [] p.op = "add_literal" -> <<add_literal_text(p.x.text)>>
      [] p.op = "begin_document" -> <<begin_document_text>>
      [] p.op = "end_document" -> <<end_document_text>>
      [] p.op = "maketitle" -> <<maketitle_text>>
      [] p.op = "new_line" -> <<new_line_text>>
      [] p.op = "clear_page" -> <<clear_page_text>>
      [] p.op = "new_page" -> <<new_page_text>>
      [] p.op = "line_break" -> <<line_break_text>>
      [] p.op = "page_break" -> <<page_break_text>>
      [] p.op = "no_indent" -> <<no_indent_text>>
      [] p.op = "centering" -> <<centering_text>>
      [] p.op = "title" -> <<title_text(p.done[1].s)>>
      [] p.op = "author" -> <<author_text(p.done[1].s)>>
      [] p.op = "text_bold" -> <<text_bold_text(p.done[1].s)>>
      [] p.op = "text_italic" -> <<text_italic_text(p.done[1].s)>>
      [] p.op = "text_underline" -> <<text_underline_text(p.done[1].s)>>
      [] p.op = "label" -> <<label_text(p.done[1].s)>>
      [] p.op = "section" -> <<section_text(p.done[1].s)>>
      [] p.op = "subsection" -> <<subsection_text(p.done[1].s)>>
      [] p.op = "subsubsection" -> <<subsubsection_text(p.done[1].s)>>
      [] p.op = "paragraph" -> <<paragraph_text(p.done[1].s)>>
      [] p.op = "subparagraph" -> <<subparagraph_text(p.done[1].s)>>
      [] p.op = "footnote" -> <<footnote_text(p.done[1].s)>>
      [] p.op = "ref_label" -> <<ref_label_text(p.done[1].s)>>
      [] p.op = "hspace" -> <<hspace_text(p.done[1].s)>>
      [] p.op = "vspace" -> <<vspace_text(p.done[1].s)>>
      [] p.op = "include" -> <<include_text(p.done[1].s)>>
      [] p.op = "input" -> <<input_text(p.done[1].s)>>
      [] p.op = "itemize" -> <<itemize_text(p.done[1].s)>>
      [] p.op = "cite" -> <<cite_text(p.done[1], p.done[2].s)>>
      [] p.op = "text_color" ->
             <<text_color_text(p.x.color_model, p.done[1].s, p.done[2].s)>>
      [] p.op = "env" -> <<env_content(p.done[1].s), env_end(p.x.env)>>

\* Carry on the call p of builder d, whose buffer is c and below which the
\* builders are base: merge the arguments up to the next closure; with none
\* left make the pushes, otherwise start the closure on a new builder.
Proceed(base, d, c, p) ==
    \E q \in {Eval(p)} :
        IF q.rest = <<>>
        THEN /\ stack' = [base EXCEPT ![d] = [content |-> PushAll(c, Pushes(q)),
                                              wait |-> NoWait]]
             /\ last' = [op |-> q.op, x |-> q.x, args |-> q.args,
                         done |-> q.done, nested |-> q.nested,
                         before |-> q.before, after |-> PushAll(c, Pushes(q)),
                         depth |-> d]
        ELSE /\ stack' = Append([base EXCEPT ![d] =
                                     [content |-> c,
                                      wait |-> [q EXCEPT !.rest = Tail(@)]]],
                                [content |-> new.content, wait |-> NoWait])
             /\ UNCHANGED last

\* title too pushes its opening text before it merges its argument
First_title(op, x) ==
    IF op = "env" THEN <<env_begin(x.env)>>
    ELSE IF op = "title" THEN <<"\\title{">> ELSE <<>>

\* the texts a method pushes before it merges any argument: only env
\* pushes its \begin line first
First(op, x) == IF op = "env" THEN <<env_begin(x.env)>> ELSE <<>>

\* the call of op with inputs x and arguments args, as made on a builder
\* whose buffer is c
NewCall(op, x, args, c) ==
    [op |-> op, x |-> x, args |-> args, done |-> <<>>, rest |-> args,
     before |-> c, nested |-> <<>>]

\* A call of method op on the builder that is running, with inputs x and
\* StringOrBuilder arguments args in the order the method merges them.
Call(op, x, args) ==
    /\ budget > 0
    /\ budget' = budget - 1
    /\ trace' = IF Len(stack) = 1
                THEN Append(trace, [op |-> op, x |-> x, args |-> args])
                ELSE trace
    /\ Proceed(stack, Len(stack), PushAll(Top.content, First(op, x)),
               NewCall(op, x, args, Top.content))

(***************************************************************************)
(* Operations of ContentBuilder                                            *)
(***************************************************************************)
\* the document class is accepted on an empty buffer only
set_document_class_first(document_class, options) ==
    /\ Top.content = ""
    /\ Call("set_document_class",
            [X0 EXCEPT !.document_class = document_class, !.options = options],
            <<>>)

set_document_class(document_class, options) ==
    Call("set_document_class",
         [X0 EXCEPT !.document_class = document_class, !.options = options],
         <<>>)

use_package(package, options) ==
    Call("use_package", [X0 EXCEPT !.package = package, !.options = options],
         <<>>)

add_literal(text) == Call("add_literal", [X0 EXCEPT !.text = text], <<>>)

begin_document == Call("begin_document", X0, <<>>)

\* the document is closed only on a buffer that holds its \begin line
end_document_paired ==
    /\ \E i \in 1..Len(trace) : trace[i].op = "begin_document"
    /\ Call("end_document", X0, <<>>)

end_document == Call("end_document", X0, <<>>)

maketitle == Call("maketitle", X0, <<>>)

new_line == Call("new_line", X0, <<>>)

clear_page == Call("clear_page", X0, <<>>)

new_page == Call("new_page", X0, <<>>)

line_break == Call("line_break", X0, <<>>)

page_break == Call("page_break", X0, <<>>)

no_indent == Call("no_indent", X0, <<>>)

centering == Call("centering", X0, <<>>)

title(s) == Call("title", X0, <<s>>)

author(s) == Call("author", X0, <<s>>)

text_bold(s) == Call("text_bold", X0, <<s>>)

text_italic(s) == Call("text_italic", X0, <<s>>)

text_underline(s) == Call("text_underline", X0, <<s>>)

label(s) == Call("label", X0, <<s>>)

section(s) == Call("section", X0, <<s>>)

subsection(s) == Call("subsection", X0, <<s>>)

subsubsection(s) == Call("subsubsection", X0, <<s>>)

paragraph(s) == Call("paragraph", X0, <<s>>)

subparagraph(s) == Call("subparagraph", X0, <<s>>)

footnote(s) == Call("footnote", X0, <<s>>)

ref_label(s) == Call("ref_label", X0, <<s>>)

hspace(s) == Call("hspace", X0, <<s>>)

vspace(s) == Call("vspace", X0, <<s>>)

include(s) == Call("include", X0, <<s>>)

input(s) == Call("input", X0, <<s>>)

itemize(s) == Call("itemize", X0, <<s>>)

\* the match on subcitation merges it before format! merges citation
cite(citation, subcitation) == Call("cite", X0, <<subcitation, citation>>)

\* format! merges color, then text
text_color(text, color, color_model) ==
    Call("text_color", [X0 EXCEPT !.color_model = color_model],
         <<color, text>>)

\* the \begin line is pushed before content.merge_str() is called
env(e, s) == Call("env", [X0 EXCEPT !.env = e], <<s>>)

\* The closure running on the last builder returns: merge_str hands the
\* builder's document to the call that is waiting for it.
Return ==
    /\ Len(stack) > 1
    /\ LET d == Len(stack) - 1
           builder == [content |-> Top.content]
           p == stack[d].wait
       IN  Proceed(SubSeq(stack, 1, d), d, stack[d].content,
                   [p EXCEPT !.done = Append(@, Some(merge_str_builder(builder))),
                             !.nested = Append(@, builder.content)])
    /\ UNCHANGED <<budget, trace>>

(***************************************************************************)
(* Inputs                                                                  *)
(***************************************************************************)
\* a StringOrBuilder argument: a &str or a closure
TextArgs == {Lit("a"), Fn}

\* text given to add_literal
Literals == {"x", "\\end{document}\n"}

DocumentClasses == {DocumentClass("Article"), DocumentClassCustom("k")}

Packages == {"amsmath"}

\* vectors built by options!: &str items and DocumentClassOptions items
OptionLists ==
    {<<>>, <<Opt("fleqn")>>, <<OptEnum("A4Paper"), Opt("twocolumn")>>,
     <<OptEnum("NotTitlePage"), OptCustom("c"), Opt("12pt")>>}

\* Option<V> arguments
OptTextArgs == {None, Lit("p"), Fn}

OptStrings == {None, Some("t")}

ColorModels == {None, Some("RGB"), Some("RGBFull")}

FileContentsOptions ==
    {None, [some |-> TRUE, tag |-> "Force", s |-> ""],
     [some |-> TRUE, tag |-> "Custom", s |-> "o"]}

Offsets == {[some |-> FALSE, x |-> "", y |-> ""],
            [some |-> TRUE, x |-> "1", y |-> "2"]}

\* environments for the specification of all methods: one without
\* parameters, one with an optional and a required parameter, one with an
\* optional parameter only
Branches == {"Abstract", "Array", "Table"}

BranchEnvironment(tag) ==
    CASE tag = "Abstract" -> Environment("Abstract", NoParams)
      [] tag = "Array" ->
             Environment("Array", ArrayParams_new("c|c", Some("t")))
      [] tag = "Table" -> Environment("Table", TableParams_new(None))

(***************************************************************************)
(* Spec: calls of every method, in any order, closures included            *)
(***************************************************************************)
Init ==
    /\ stack = <<[content |-> new.content, wait |-> NoWait]>>
    /\ budget = MaxOps
    /\ trace = <<>>
    /\ last = NoCall

Next ==
    \/ \E o \in {<<>>, <<Opt("fleqn")>>} :
           set_document_class(DocumentClass("Article"), o)
    \/ \E o \in {<<>>, <<Opt("fleqn")>>} : use_package("amsmath", o)
    \/ \E s \in Literals : add_literal(s)
    \/ begin_document
    \/ end_document
    \/ maketitle
    \/ new_line
    \/ clear_page
    \/ new_page
    \/ line_break
    \/ page_break
    \/ no_indent
    \/ centering
    \/ \E s \in TextArgs : title(s)
    \/ \E s \in TextArgs : author(s)
    \/ \E s \in TextArgs : text_bold(s)
    \/ \E s \in TextArgs : text_italic(s)
    \/ \E s \in TextArgs : text_underline(s)
    \/ \E s \in TextArgs : label(s)
    \/ \E s \in TextArgs : section(s)
    \/ \E s \in TextArgs : subsection(s)
    \/ \E s \in TextArgs : subsubsection(s)
    \/ \E s \in TextArgs : paragraph(s)
    \/ \E s \in TextArgs : subparagraph(s)
    \/ \E s \in TextArgs : footnote(s)
    \/ \E s \in TextArgs : ref_label(s)
    \/ \E s \in TextArgs : hspace(s)
    \/ \E s \in TextArgs : vspace(s)
    \/ \E s \in TextArgs : include(s)
    \/ \E s \in TextArgs : input(s)
    \/ \E s \in TextArgs : itemize(s)
    \/ \E s \in TextArgs, sub \in OptTextArgs : cite(s, sub)
    \/ \E s \in TextArgs, m \in ColorModels : text_color(s, Lit("red"), m)
    \/ \E s \in TextArgs, tag \in Branches : env(BranchEnvironment(tag), s)
    \/ Return

Spec == Init /\ [][Next]_vars

(***************************************************************************)
(* SpecEnv: env with every variant of Environment and its parameters; the  *)
(* content is a closure that may call env, add_literal and itemize         *)
(***************************************************************************)
\* the content given to env: a closure, whose calls make any content
EnvContents == {Fn}

EnvPlain(s) == \E tag \in PlainEnvironments : env(Environment(tag, NoParams), s)

EnvArray(s) ==
    \E pos \in OptStrings :
        env(Environment("Array", ArrayParams_new("c|c", pos)), s)

EnvFigure(s) == env(Environment("Figure", FigureParams_new("h!")), s)

EnvFileContents(s) ==
    \E o \in FileContentsOptions :
        env(Environment("FileContents", FileContentsParams_new("f", o)), s)

EnvList(s) == env(Environment("List", ListParams_new("l", "sp")), s)

EnvMinipage(s) ==
    \E position \in OptStrings, height \in OptStrings, inner_pos \in OptStrings :
        env(Environment("Minipage",
                MinipageParams_new(position, height, inner_pos, "5cm")), s)

EnvPicture(s) ==
    \E offset \in Offsets :
        env(Environment("Picture", PictureParams_new(<<"3", "4">>, offset)), s)

EnvTable(s) ==
    \E placement \in OptStrings :
        env(Environment("Table", TableParams_new(placement)), s)

EnvTabular(s) ==
    \E pos \in OptStrings :
        env(Environment("Tabular", TabularParams_new("c|c", pos)), s)

EnvTheBibliography(s) ==
    env(Environment("TheBibliography", TheBubliographyParams_new("99")), s)

NextEnv ==
    \/ \E s \in EnvContents : EnvPlain(s)
    \/ \E s \in EnvContents : EnvArray(s)
    \/ \E s \in EnvContents : EnvFigure(s)
    \/ \E s \in EnvContents : EnvFileContents(s)
    \/ \E s \in EnvContents : EnvList(s)
    \/ \E s \in EnvContents : EnvMinipage(s)
    \/ \E s \in EnvContents : EnvPicture(s)
    \/ \E s \in EnvContents : EnvTable(s)
    \/ \E s \in EnvContents : EnvTabular(s)
    \/ \E s \in EnvContents : EnvTheBibliography(s)
    \/ \E s \in Literals : add_literal(s)
    \/ itemize(Lit("a"))
    \/ Return

SpecEnv == Init /\ [][NextEnv]_vars

(***************************************************************************)
(* SpecPreamble: the calls that make a document's preamble and open and    *)
(* close its body, in any order, with every class and option list of the   *)
(* inputs                                                                  *)
(***************************************************************************)
InitPreamble ==
    /\ stack = <<[content |-> new.content, wait |-> NoWait]>>
    /\ budget = MaxPreambleOps
    /\ trace = <<>>
    /\ last = NoCall

NextPreamble ==
    \/ \E dc \in DocumentClasses, o \in OptionLists : set_document_class(dc, o)
    \/ \E pk \in Packages, o \in OptionLists : use_package(pk, o)
    \/ begin_document
    \/ end_document

SpecPreamble == InitPreamble /\ [][NextPreamble]_vars

(***************************************************************************)
(* SpecKeywords: calls that write the keyword of an enumeration's value,   *)
(* with every variant of every enumeration and, for the enumerations that  *)
(* have a Custom variant, Custom strings that are and are not keywords     *)
(***************************************************************************)
FileContentsOptionTags == {"Force", "Overwrite", "NoHeader", "NoSearch"}

\* strings given to a Custom variant
CustomStrings == {"k", "article", "draft", "force"}

EveryDocumentClass ==
    {DocumentClass(tag) : tag \in DocumentClassTags}
        \cup {DocumentClassCustom(s) : s \in CustomStrings}

EveryDocumentClassOption ==
    {OptEnum(tag) : tag \in DocumentClassOptionsTags}
        \cup {OptCustom(s) : s \in CustomStrings}

EveryFileContentsOption ==
    {[some |-> TRUE, tag |-> tag, s |-> ""] : tag \in FileContentsOptionTags}
        \cup {[some |-> TRUE, tag |-> "Custom", s |-> s] : s \in CustomStrings}

NextKeywords ==
    \/ \E dc \in EveryDocumentClass : set_document_class(dc, <<>>)
    \/ \E o \in EveryDocumentClassOption : use_package("amsmath", <<o>>)
    \/ \E m \in ColorModelTags : text_color(Lit("a"), Lit("red"), Some(m))
    \/ \E o \in EveryFileContentsOption :
           env(Environment("FileContents", FileContentsParams_new("f", o)),
               Lit("a"))
    \/ EnvPlain(Lit("a"))
    \/ EnvArray(Lit("a"))
    \/ EnvFigure(Lit("a"))
    \/ EnvList(Lit("a"))
    \/ EnvMinipage(Lit("a"))
    \/ EnvPicture(Lit("a"))
    \/ EnvTable(Lit("a"))
    \/ EnvTabular(Lit("a"))
    \/ EnvTheBibliography(Lit("a"))

SpecKeywords == Init /\ [][NextKeywords]_vars

(***************************************************************************)
(* SpecAccept: every method, called with text that is not valid markup:    *)
(* empty strings and a string of closing and opening braces and brackets,  *)
(* a backslash, a newline and outer blanks                                 *)
(***************************************************************************)
Hostile == " }]\\[{\n "

HostileTexts == {"", Hostile}

HostileClasses == {DocumentClass("Article"), DocumentClassCustom(Hostile)}

HostileOptionLists == {<<>>, <<Opt(Hostile), Opt("")>>}

HostileOptTexts == {None, Lit(Hostile)}

HostileColorModels == {None, Some("Gray")}

HostileEnvironments == {"Verbatim", "Picture"}

HostileEnvironment(tag) ==
    CASE tag = "Verbatim" -> Environment("Verbatim", NoParams)
      [] tag = "Picture" ->
             Environment("Picture",
                 PictureParams_new(<<Hostile, "">>,
                                   [some |-> TRUE, x |-> Hostile, y |-> ""]))

NextAccept ==
    \/ \E dc \in HostileClasses, o \in HostileOptionLists :
           set_document_class(dc, o)
    \/ \E pk \in HostileTexts : use_package(pk, <<>>)
    \/ \E s \in HostileTexts : add_literal(s)
    \/ begin_document
    \/ end_document
    \/ maketitle
    \/ new_line
    \/ clear_page
    \/ new_page
    \/ line_break
    \/ page_break
    \/ no_indent
    \/ centering
    \/ \E s \in {Lit(""), Lit(Hostile), Fn} : title(s)
    \/ author(Lit(Hostile))
    \/ text_bold(Lit(Hostile))
    \/ text_italic(Lit(Hostile))
    \/ text_underline(Lit(Hostile))
    \/ label(Lit(Hostile))
    \/ section(Lit(Hostile))
    \/ subsection(Lit(Hostile))
    \/ subsubsection(Lit(Hostile))
    \/ paragraph(Lit(Hostile))
    \/ subparagraph(Lit(Hostile))
    \/ footnote(Lit(Hostile))
    \/ ref_label(Lit(Hostile))
    \/ hspace(Lit(Hostile))
    \/ vspace(Lit(Hostile))
    \/ include(Lit(Hostile))
    \/ input(Lit(Hostile))
    \/ itemize(Lit(Hostile))
    \/ \E sub \in HostileOptTexts : cite(Lit(Hostile), sub)
    \/ \E m \in HostileColorModels : text_color(Lit(Hostile), Lit(Hostile), m)
    \/ \E tag \in HostileEnvironments :
           env(HostileEnvironment(tag), Lit(Hostile))
    \/ Return

SpecAccept == Init /\ [][NextAccept]_vars

(***************************************************************************)
(* Properties                                                              *)
(***************************************************************************)
\* what the last call appended to its builder's buffer
Fragment == Drop(last.after, Len(last.before))

\* the content a StringOrBuilder argument of the last call stands for: the
\* &str itself, or the buffer of the closure's builder when it returned
Rendered(i) == IF last.args[i].fn THEN last.nested[i] ELSE last.args[i].s

\* the buffer c after a call of op with inputs x whose arguments args are
\* all &str
LiteralCall(c, op, x, args) ==
    PushAll(PushAll(c, First(op, x)), Pushes(Eval(NewCall(op, x, args, c))))

\* strs[1], ..., strs[n] with one comma between neighbours
RECURSIVE CommaList(_, _)
CommaList(strs, n) ==
    IF n = 1 THEN strs[1] ELSE CommaList(strs, n - 1) \o "," \o strs[n]

\* occurrences of ch in the strings of strs
RECURSIVE CountAll(_, _)
CountAll(strs, ch) ==
    IF strs = <<>> THEN 0 ELSE Count(Head(strs), ch) + CountAll(Tail(strs), ch)

\* the calls of the documented example, in order
ExampleCalls ==
    <<[op |-> "set_document_class",
       x |-> [X0 EXCEPT !.document_class = DocumentClass("Article")],
       args |-> <<>>],
      [op |-> "use_package",
       x |-> [X0 EXCEPT !.package = "amsmath", !.options = <<Opt("fleqn")>>],
       args |-> <<>>],
      [op |-> "begin_document", x |-> X0, args |-> <<>>],
      [op |-> "end_document", x |-> X0, args |-> <<>>]>>

\* C1: on a new builder, set_document_class(Article, no options),
\* use_package("amsmath", ["fleqn"]), begin_document(), end_document() leave
\* build_document() equal to exactly the four lines of the example.
C1_Example ==
    trace = ExampleCalls =>
        build_document(stack[1]) =
            "\\documentclass{article}\n\\usepackage[fleqn]{amsmath}\n\\begin{document}\n\\end{document}\n"

C1_Witness == trace = ExampleCalls /\ last.op = "end_document"

\* the builders that a step keeps: a closure's return (the one step that
\* makes no call, so leaves budget as it is) drops the last builder, and a
\* builder made by the step for the next closure is a new one
Kept == IF budget' = budget THEN Len(stack) - 1 ELSE Len(stack)

\* C2: the buffer is append-only: whatever step is taken (a call, the
\* \begin line env pushes before its closure runs, a closure's return),
\* every builder the step keeps has its earlier buffer as a prefix of its
\* later one.
C2_AppendOnly ==
    [][\A k \in 1..Kept : StartsWith(stack'[k].content, stack[k].content)]_vars

C2_Witness ==
    /\ last.op = "env"
    /\ last.args[1].fn
    /\ last.before # ""
    /\ Len(last.after) > Len(last.before)

\* the directive of the last call: its command and its braced keyword
DirectiveName ==
    IF last.op = "set_document_class" THEN "\\documentclass" ELSE "\\usepackage"

DirectiveKeyword ==
    IF last.op = "set_document_class"
    THEN DocumentClass_to_string(last.x.document_class)
    ELSE last.x.package

\* C3: set_document_class and use_package with an empty option list append
\* exactly \documentclass{<class>}\n and \usepackage{<package>}\n, with no
\* bracket added by the builder.
C3_NoBracketSegment ==
    (last.op \in {"set_document_class", "use_package"} /\ last.x.options = <<>>) =>
        /\ last.after = last.before \o DirectiveName \o "{" \o DirectiveKeyword \o "}\n"
        /\ Count(Fragment, "[") = Count(DirectiveKeyword, "[")
        /\ Count(Fragment, "]") = Count(DirectiveKeyword, "]")

C3_Witness ==
    /\ last.op = "set_document_class"
    /\ last.x.options = <<>>
    /\ \E i \in 1..Len(trace) :
           trace[i].op = "use_package" /\ trace[i].x.options = <<>>

\* C4: with n >= 1 options the fragment has one bracket pair between the
\* command name and the braced keyword, holding the options' strings in
\* input order with exactly n-1 commas between them and nothing else.
C4_CommaJoined ==
    (last.op \in {"set_document_class", "use_package"} /\ last.x.options # <<>>) =>
        LET n == Len(last.x.options)
            strs == [i \in 1..n |-> option_to_string(last.x.options[i])]
        IN  /\ last.after = last.before \o DirectiveName \o "[" \o CommaList(strs, n)
                                \o "]{" \o DirectiveKeyword \o "}\n"
            /\ Count(Fragment, ",") =
                   (n - 1) + CountAll(strs, ",") + Count(DirectiveKeyword, ",")
            /\ Count(Fragment, "[") =
                   1 + CountAll(strs, "[") + Count(DirectiveKeyword, "[")
            /\ Count(Fragment, "]") =
                   1 + CountAll(strs, "]") + Count(DirectiveKeyword, "]")

C4_Witness ==
    /\ last.op = "set_document_class"
    /\ Len(last.x.options) = 3
    /\ \E i \in 1..Len(trace) :
           trace[i].op = "use_package" /\ Len(trace[i].x.options) = 1

\* C5: env appends, in this order, an open marker \begin{K} followed by the
\* variant's parameters and a newline, the rendered content, and the close
\* marker \end{K}, K being Environment::to_string of the variant in both.
C5_ThreeFragments ==
    last.op = "env" =>
        LET k == Environment_to_string(last.x.env)
            open == "\\begin{" \o k \o "}"
            rest == Rendered(1) \o "\n" \o "\\end{" \o k \o "}\n"
        IN  /\ StartsWith(last.after, last.before)
            /\ StartsWith(Fragment, open)
            /\ EndsWith(Fragment, rest)
            /\ Len(Fragment) >= Len(open) + 1 + Len(rest)
            /\ SubSeq(Fragment, Len(Fragment) - Len(rest), Len(Fragment) - Len(rest))
                   = "\n"

C5_Witness ==
    /\ last.op = "env"
    /\ last.depth = 1
    /\ last.x.env.tag = "Picture"
    /\ Rendered(1) # ""

\* C6: a text-bearing operation called with closures appends the same
\* fragment as the call with, in place of each closure, the literal string
\* that the closure's builder held when the closure returned.
C6_ClosureAsLiteral ==
    (last.op # "" /\ \E i \in 1..Len(last.args) : last.args[i].fn) =>
        last.after =
            LiteralCall(last.before, last.op, last.x,
                        [i \in 1..Len(last.args) |->
                            IF last.args[i].fn THEN Lit(last.nested[i])
                            ELSE last.args[i]])

C6_Witness ==
    /\ last.op = "env"
    /\ last.args[1].fn
    /\ last.nested[1] # ""

\* C7: each fixed marker appends its one literal string, whatever the
\* buffer holds and whatever calls came before.
C7_FixedMarkers ==
    /\ last.op = "begin_document" => last.after = last.before \o "\\begin{document}\n"
    /\ last.op = "end_document" => last.after = last.before \o "\\end{document}\n"
    /\ last.op = "maketitle" => last.after = last.before \o "\\maketitle\n"
    /\ last.op = "new_line" => last.after = last.before \o "\\\\\n"
    /\ last.op = "clear_page" => last.after = last.before \o "\\clearpage\n"
    /\ last.op = "new_page" => last.after = last.before \o "\\newpage\n"
    /\ last.op = "line_break" => last.after = last.before \o "\\linebreak\n"
    /\ last.op = "page_break" => last.after = last.before \o "\\pagebreak\n"
    /\ last.op = "no_indent" => last.after = last.before \o "\\noindent\n"
    /\ last.op = "centering" => last.after = last.before \o "\\centering\n"

C7_Witness ==
    /\ last.op = "new_line"
    /\ last.before = "\\end{document}\n"
    /\ last.depth = 1

\* C8: env with Environment::Figure(FigureParams::new(p)) opens with
\* \begin{figure}[p] and a newline.
C8_FigurePlacementBracketed ==
    (last.op = "env" /\ last.x.env.tag = "Figure") =>
        StartsWith(Fragment,
                   "\\begin{figure}[" \o last.x.env.params.placement \o "]\n")

\* C9: env with Environment::List(ListParams::new(labeling, spacing)) opens
\* with \begin{list}{labeling}{spacing} and a newline.
C9_ListParamsBraced ==
    (last.op = "env" /\ last.x.env.tag = "List") =>
        StartsWith(Fragment,
                   "\\begin{list}{" \o last.x.env.params.labeling \o "}{"
                       \o last.x.env.params.spacing \o "}\n")

\* an Option argument of minipage that is always written: [v], or [] for None
Bracket(o) == IF o.some THEN "[" \o o.s \o "]" ELSE "[]"

\* C10 as stated: position, height, inner position, width in this order,
\* Some(v) as [v], None as text that supplies no value, and with all three
\* None the open marker \begin{minipage}{width}.
C10_MinipageOptionalOmitted ==
    (last.op = "env" /\ last.x.env.tag = "Minipage") =>
        LET params == last.x.env.params
            allNone == ~params.position.some /\ ~params.height.some
                           /\ ~params.inner_pos.some
            Arg(o) == IF allNone THEN "" ELSE Bracket(o)
        IN  StartsWith(Fragment,
                       "\\begin{minipage}" \o Arg(params.position)
                           \o Arg(params.height) \o Arg(params.inner_pos)
                           \o "{" \o params.width \o "}\n")

\* C10, amended: env with Environment::Minipage always writes three
\* bracketed arguments and then the braced width, in the order position,
\* height, inner position, width: Some(v) as [v] and None as the empty pair
\* []; with all three None the open marker is \begin{minipage}[][][]{width}.
C10_MinipageThreeBrackets ==
    (last.op = "env" /\ last.x.env.tag = "Minipage") =>
        LET params == last.x.env.params
        IN  StartsWith(Fragment,
                       "\\begin{minipage}" \o Bracket(params.position)
                           \o Bracket(params.height) \o Bracket(params.inner_pos)
                           \o "{" \o params.width \o "}\n")

C10_Witness ==
    /\ last.op = "env"
    /\ last.x.env.tag = "Minipage"
    /\ ~last.x.env.params.position.some
    /\ ~last.x.env.params.height.some
    /\ ~last.x.env.params.inner_pos.some
    /\ StartsWith(Fragment, "\\begin{minipage}[][][]{5cm}\n")

\* C11: text_color(text, color, Some(ColorModel::RGB)) appends
\* \textcolor[RGB]{color}{text}, the bracket holding the upper-case keyword
\* RGB, and with color_model None it appends \textcolor{color}{text}.
C11_TextColorRGBUpper ==
    last.op = "text_color" =>
        /\ last.x.color_model = Some("RGB") =>
               Fragment = "\\textcolor[RGB]{" \o Rendered(1) \o "}{"
                              \o Rendered(2) \o "}"
        /\ last.x.color_model = None =>
               Fragment = "\\textcolor{" \o Rendered(1) \o "}{"
                              \o Rendered(2) \o "}"

\* a value of an enumeration as a call uses it: the enumeration, the
\* variant, the string a Custom variant carries, and the keyword that
\* to_string gives
Use(enum, tag, s, keyword) ==
    [enum |-> enum, tag |-> tag, s |-> s, keyword |-> keyword]

OptionUses(options) ==
    {Use("DocumentClassOptions", options[i].tag, options[i].s,
         DocumentClassOptions_to_string(options[i])) :
        i \in {j \in 1..Len(options) :
                   options[j].ty = "DocumentClassOptions"}}

\* the enumeration values whose keyword the call c writes
Uses(c) ==
    CASE c.op = "set_document_class" ->
             {Use("DocumentClass", c.x.document_class.tag,
                  c.x.document_class.s,
                  DocumentClass_to_string(c.x.document_class))}
                 \cup OptionUses(c.x.options)
      [] c.op = "use_package" -> OptionUses(c.x.options)
      [] c.op = "text_color" /\ c.x.color_model.some ->
             {Use("ColorModel", c.x.color_model.s, "",
                  ColorModel_to_string(c.x.color_model.s))}
      [] c.op = "env" /\ c.x.env.tag = "FileContents" ->
             {Use("Environment", c.x.env.tag, "",
                  Environment_to_string(c.x.env)),
              Use("FileContentsOption", c.x.env.params.option.tag,
                  c.x.env.params.option.s,
                  FileContentsOption_to_string(c.x.env.params.option))}
      [] c.op = "env" /\ c.x.env.tag # "FileContents" ->
             {Use("Environment", c.x.env.tag, "",
                  Environment_to_string(c.x.env))}
      [] OTHER -> {}

\* the enumeration values used by the calls made so far
Used == UNION {Uses(trace[i]) : i \in 1..Len(trace)}

\* C12 as stated: within each enumeration to_string is one-to-one: two
\* distinct values of one enumeration, Custom(s) values with any string s
\* included, have two distinct keywords.
C12_OneToOne ==
    \A u \in Used, v \in Used :
        (u.enum = v.enum /\ <<u.tag, u.s>> # <<v.tag, v.s>>) =>
            u.keyword # v.keyword

\* C12, amended: within each enumeration two distinct variants other than
\* Custom have two distinct keywords, and Custom(s) has the keyword s, so
\* that two Custom values with distinct strings have distinct keywords; a
\* Custom(s) whose s is the keyword of another variant has that variant's
\* keyword.
C12_OneToOneNamed ==
    \A u \in Used, v \in Used :
        /\ u.tag = "Custom" => u.keyword = u.s
        /\ (/\ u.enum = v.enum
            /\ <<u.tag, u.s>> # <<v.tag, v.s>>
            /\ (u.tag = "Custom") = (v.tag = "Custom")) =>
               u.keyword # v.keyword

\* two calls that write two distinct keywords of one enumeration, and a
\* buffer in which they are seen
C12_Witness ==
    /\ \E u \in Used, v \in Used :
           /\ u.enum = "ColorModel" /\ v.enum = "ColorModel"
           /\ u.tag = "RGB" /\ v.tag = "RGBFull"
    /\ content \in {"\\textcolor[rgb]{red}{a}\\textcolor[RGB]{red}{a}",
                    "\\textcolor[RGB]{red}{a}\\textcolor[rgb]{red}{a}"}

\* C13 as stated: each of the four enumerated kinds (document class,
\* environment kind, color model, file-option kind) has a custom variant:
\* for every string s a caller supplies there is a value of the enumeration
\* whose keyword is exactly s.
C13_CustomInEveryKind ==
    \A s \in {u.s : u \in {v \in Used : v.tag = "Custom"}} :
        /\ \E dc \in EveryDocumentClass : DocumentClass_to_string(dc) = s
        /\ \E o \in EveryFileContentsOption :
               FileContentsOption_to_string(o) = s
        /\ \E m \in ColorModelTags : ColorModel_to_string(m) = s
        /\ \E tag \in EnvironmentTags :
               Environment_to_string(Environment(tag, NoParams)) = s

\* C13, amended: document class, document class option and file-option
\* kind have a Custom variant whose keyword is the caller's string s, which
\* set_document_class writes as {s} and env as \begin{filecontents}[s];
\* environment kind and color model have no such variant: env writes
\* \begin{K} ... \end{K} and text_color writes [K] only for the fixed
\* keywords K of their variants, and no value of either has a keyword
\* outside them.
C13_CustomWhereDeclared ==
    /\ \A s \in CustomStrings :
           /\ DocumentClass_to_string(DocumentClassCustom(s)) = s
           /\ DocumentClassOptions_to_string(OptCustom(s)) = s
           /\ \E o \in EveryFileContentsOption :
                  FileContentsOption_to_string(o) = s
    /\ {ColorModel_to_string(m) : m \in ColorModelTags}
           = {"cmyk", "gray", "rgb", "RGB", "named"}
    /\ \A tag \in EnvironmentTags :
           Environment_to_string(Environment(tag, NoParams)) # "k"
    /\ (last.op = "set_document_class"
            /\ last.x.document_class.tag = "Custom") =>
           Fragment = "\\documentclass{" \o last.x.document_class.s \o "}\n"
    /\ (last.op = "env" /\ last.x.env.tag = "FileContents"
            /\ last.x.env.params.option.tag = "Custom") =>
           StartsWith(Fragment,
                      "\\begin{filecontents}[" \o last.x.env.params.option.s
                          \o "]{")
    /\ last.op = "env" =>
           \E tag \in EnvironmentTags :
               LET K == Environment_to_string(Environment(tag, NoParams))
               IN  /\ tag = last.x.env.tag
                   /\ StartsWith(Fragment, "\\begin{" \o K \o "}")
                   /\ EndsWith(Fragment, "\\end{" \o K \o "}\n")
    /\ (last.op = "text_color" /\ last.x.color_model.some) =>
           \E m \in ColorModelTags :
               StartsWith(Fragment,
                          "\\textcolor[" \o ColorModel_to_string(m) \o "]{")

C13_Witness ==
    /\ last.op = "env"
    /\ last.x.env.tag = "FileContents"
    /\ last.x.env.params.option.tag = "Custom"
    /\ Fragment = "\\begin{filecontents}[k]{f}\na\n\\end{filecontents}\n"

\* C14: no operation can fail: whatever the buffers hold and whether or not
\* a closure is running, every method can be called on the builder in use
\* with every argument value, empty and unbalanced text included (the
\* model's count of calls left aside), and a call that has returned leaves
\* such a builder behind.
C14_NoFailure ==
    budget > 0 =>
        /\ \A dc \in HostileClasses, o \in HostileOptionLists :
               ENABLED set_document_class(dc, o)
        /\ \A s \in HostileTexts :
               ENABLED use_package(s, <<>>) /\ ENABLED add_literal(s)
        /\ ENABLED begin_document
        /\ ENABLED end_document
        /\ ENABLED maketitle
        /\ ENABLED new_line
        /\ ENABLED clear_page
        /\ ENABLED new_page
        /\ ENABLED line_break
        /\ ENABLED page_break
        /\ ENABLED no_indent
        /\ ENABLED centering
        /\ \A s \in {Lit(""), Lit(Hostile), Fn} : ENABLED title(s)
        /\ ENABLED author(Lit(Hostile))
        /\ ENABLED text_bold(Lit(Hostile))
        /\ ENABLED text_italic(Lit(Hostile))
        /\ ENABLED text_underline(Lit(Hostile))
        /\ ENABLED label(Lit(Hostile))
        /\ ENABLED section(Lit(Hostile))
        /\ ENABLED subsection(Lit(Hostile))
        /\ ENABLED subsubsection(Lit(Hostile))
        /\ ENABLED paragraph(Lit(Hostile))
        /\ ENABLED subparagraph(Lit(Hostile))
        /\ ENABLED footnote(Lit(Hostile))
        /\ ENABLED ref_label(Lit(Hostile))
        /\ ENABLED hspace(Lit(Hostile))
        /\ ENABLED vspace(Lit(Hostile))
        /\ ENABLED include(Lit(Hostile))
        /\ ENABLED input(Lit(Hostile))
        /\ ENABLED itemize(Lit(Hostile))
        /\ \A sub \in HostileOptTexts : ENABLED cite(Lit(Hostile), sub)
        /\ \A m \in HostileColorModels :
               ENABLED text_color(Lit(Hostile), Lit(Hostile), m)
        /\ \A tag \in HostileEnvironments :
               ENABLED env(HostileEnvironment(tag), Lit(Hostile))

\* a call with unbalanced text has returned, and calls can still be made
C14_Witness ==
    /\ last.op = "section"
    /\ Rendered(1) = Hostile
    /\ content = "\\section{ }]\\[{\n }\n"
    /\ budget > 0

\* the text with which a command that takes one argument opens it
CommandOpen(op) ==
    CASE op = "title" -> "\\title{"
      [] op = "author" -> "\\author{"
      [] op = "text_bold" -> "\\textbf{"
      [] op = "text_italic" -> "\\textit{"
      [] op = "text_underline" -> "\\underline{"
      [] op = "label" -> "\\label{"
      [] op = "section" -> "\\section{"
      [] op = "subsection" -> "\\subsection{"
      [] op = "subsubsection" -> "\\subsubsection{"
      [] op = "paragraph" -> "\\paragraph{"
      [] op = "subparagraph" -> "\\subparagraph{"
      [] op = "footnote" -> "\\footnote{"
      [] op = "ref_label" -> "\\ref{"
      [] op = "hspace" -> "\\hspace{"
      [] op = "vspace" -> "\\vspace{"
      [] op = "include" -> "\\include{"
      [] op = "input" -> "\\input{"
      [] op = "itemize" -> "\\item {"

OneArgumentCommands ==
    {"title", "author", "text_bold", "text_italic", "text_underline", "label",
     "section", "subsection", "subsubsection", "paragraph", "subparagraph",
     "footnote", "ref_label", "hspace", "vspace", "include", "input",
     "itemize"}

\* the bracket segment of a directive whose options are all &str
TextOptions(options) ==
    IF options = <<>> THEN ""
    ELSE "[" \o CommaList([i \in 1..Len(options) |-> options[i].s],
                          Len(options)) \o "]"

\* C15: argument text is substituted verbatim: the fragment a command
\* appends is its fixed template with each argument string in it character
\* for character, whatever the string holds (braces, brackets, a backslash,
\* a newline, outer blanks, nothing); add_literal(t) appends exactly t and
\* add_literal("") leaves the buffer as it was.
C15_Verbatim ==
    /\ last.op \in OneArgumentCommands =>
           \E close \in {"}", "}\n"} :
               Fragment = CommandOpen(last.op) \o Rendered(1) \o close
    /\ last.op = "add_literal" =>
           /\ last.after = last.before \o last.x.text
           /\ last.x.text = "" => last.after = last.before
    /\ last.op = "cite" =>
           Fragment = "\\cite"
                          \o (IF last.args[1].some
                              THEN "[" \o Rendered(1) \o "]" ELSE "")
                          \o "{" \o Rendered(2) \o "}"
    /\ last.op = "text_color" =>
           \E model \in {""} \cup {"[" \o ColorModel_to_string(m) \o "]" :
                                       m \in ColorModelTags} :
               Fragment = "\\textcolor" \o model \o "{" \o Rendered(1) \o "}{"
                              \o Rendered(2) \o "}"
    /\ last.op = "use_package" =>
           Fragment = "\\usepackage" \o TextOptions(last.x.options) \o "{"
                          \o last.x.package \o "}\n"
    /\ (last.op = "set_document_class"
            /\ last.x.document_class.tag = "Custom") =>
           Fragment = "\\documentclass" \o TextOptions(last.x.options) \o "{"
                          \o last.x.document_class.s \o "}\n"
    /\ last.op = "env" =>
           EndsWith(Fragment,
                    "}\n" \o Rendered(1) \o "\n\\end{"
                        \o Environment_to_string(last.x.env) \o "}\n")
                 \/ EndsWith(Fragment,
                    ")\n" \o Rendered(1) \o "\n\\end{"
                        \o Environment_to_string(last.x.env) \o "}\n")
    /\ (last.op = "env" /\ last.x.env.tag = "Picture") =>
           StartsWith(Fragment,
                      "\\begin{picture}(" \o Hostile \o ",)(" \o Hostile
                          \o ",)\n")

\* add_literal("") and then a command whose argument holds braces, brackets,
\* a backslash, a newline and outer blanks
C15_Witness ==
    /\ Len(trace) = 2
    /\ trace[1].op = "add_literal"
    /\ trace[1].x.text = ""
    /\ last.op = "title"
    /\ last.args = <<Lit(Hostile)>>
    /\ content = "\\title{ }]\\[{\n }\n"

\* C16 as stated: in every operation that takes a closure, env included,
\* nothing of the operation is in the outer buffer while the closure runs:
\* the buffer of a builder whose call waits for a closure is what it was
\* when the call was made.
C16_NothingBeforeClosure ==
    \A d \in 1..(Len(stack) - 1) : stack[d].content = stack[d].wait.before

\* C16, amended: while the closure of any operation other than env runs,
\* the outer buffer is what it was when the call was made, so the closure's
\* text is complete before the operation appends anything; env appends its
\* open marker line \begin{K}...\n first and then runs the closure, so
\* while env's closure runs the outer buffer holds that line, and nothing
\* more, after what it held before.
C16_OnlyEnvOpensBeforeClosure ==
    \A d \in 1..(Len(stack) - 1) :
        LET w == stack[d].wait
            opened == Drop(stack[d].content, Len(w.before))
        IN  /\ StartsWith(stack[d].content, w.before)
            /\ w.op # "env" => opened = ""
            /\ w.op = "env" =>
                   /\ StartsWith(opened,
                                 "\\begin{" \o Environment_to_string(w.x.env)
                                     \o "}")
                   /\ EndsWith(opened, "\n")
                   /\ Count(opened, "\n") = 1

\* the closure of env has just started inside the closure of another env
C16_Witness ==
    /\ Len(stack) = 3
    /\ stack[1].wait.op = "env"
    /\ stack[2].wait.op = "env"
    /\ stack[1].content = "\\begin{abstract}\n"
    /\ stack[2].content = "\\begin{table}\n"
    /\ stack[3].content = ""

\* C17: a closure is given a new builder whose buffer is empty whatever the
\* outer buffers hold; only the builder a step acts on changes, so the
\* closure's builder holds exactly what the closure's own calls appended and
\* the outer buffers are left alone while it runs; when the closure returns,
\* the text captured as the argument is exactly that builder's buffer, and
\* the outer buffer changes only by what the waiting operation appends to
\* it.  Kept is the builder the step acts on, at whatever depth it is, and
\* n the place of the closure among the arguments of the waiting call.
C17_FreshNestedBuilder ==
    [][/\ \A k \in 1..(Kept - 1) : stack'[k] = stack[k]
       /\ Len(stack') > Kept =>
              /\ Len(stack') = Kept + 1
              /\ stack'[Len(stack')].content = ""
              /\ stack'[Len(stack')].wait = NoWait
       /\ budget' = budget =>
              LET captured == stack[Len(stack)].content
                  n == Len(stack[Kept].wait.done) + 1
              IN  IF Len(stack') = Kept
                  THEN /\ last'.done[n].s = captured
                       /\ last'.nested[n] = captured
                       /\ last'.before = stack[Kept].wait.before
                       /\ stack'[Kept].content = last'.after
                       /\ StartsWith(last'.after, stack[Kept].content)
                  ELSE /\ stack'[Kept].wait.done[n].s = captured
                       /\ stack'[Kept].content = stack[Kept].content
      ]_vars

\* the closure of env has run on a new builder while the outer buffer held
\* the \begin line, a closure of its own has run inside it, and the text
\* env captured is what the closure's one call appended
C17_Witness ==
    /\ last.op = "env"
    /\ last.depth = 1
    /\ last.args = <<Fn>>
    /\ last.nested = <<"\\title{}\n">>
    /\ content = "\\begin{abstract}\n\\title{}\n\n\\end{abstract}\n"

\* the arguments of the last call as &str: each closure replaced by the
\* text its builder held when it returned
RenderedArgs ==
    [i \in 1..Len(last.args) |->
        IF last.args[i].some THEN Lit(Rendered(i)) ELSE last.args[i]]

\* C18: begin and end pairing is not tracked: begin_document, end_document
\* and env can be called in every state, whatever markers the buffers hold
\* and whatever calls came before (the model's count of calls left aside),
\* and what a call appends is what the same call appends to an empty
\* buffer, so it does not depend on the markers already there.
C18_PairingNotTracked ==
    /\ budget > 0 =>
           /\ ENABLED begin_document
           /\ ENABLED end_document
           /\ \A s \in TextArgs, tag \in Branches :
                  ENABLED env(BranchEnvironment(tag), s)
    /\ last.op # "" =>
           last.after
               = last.before \o LiteralCall("", last.op, last.x, RenderedArgs)

\* an env whose content, made by add_literal, is an \end{document} that
\* nothing opened
C18_Witness ==
    /\ last.op = "env"
    /\ last.nested = <<"\\end{document}\n">>
    /\ content = "\\begin{abstract}\n\\end{document}\n\n\\end{abstract}\n"
    /\ Count(content, "\\") = 3

\* C19: env with Environment::Array or Environment::Tabular opens with
\* \begin{K}, then the position in one bracket pair, then the column
\* specification in one brace pair, and a newline; with the position None
\* the open marker is \begin{K}{cols}, with no bracket at all.
C19_ArrayTabularOpenMarker ==
    (last.op = "env" /\ last.x.env.tag \in {"Array", "Tabular"}) =>
        LET K == IF last.x.env.tag = "Array" THEN "array" ELSE "tabular"
            params == last.x.env.params
            line == "\\begin{" \o K \o "}"
                        \o (IF params.pos.some
                            THEN "[" \o params.pos.s \o "]" ELSE "")
                        \o "{" \o params.cols \o "}\n"
        IN  StartsWith(Fragment, line)

C19_Witness ==
    /\ last.op = "env"
    /\ last.x.env.tag = "Array"
    /\ ~last.x.env.params.pos.some
    /\ StartsWith(Fragment, "\\begin{array}{c|c}\n")

\* C20: env with Environment::Picture opens with \begin{picture}, then the
\* size pair (w,h), then the offset pair (x,y) only when an offset is given,
\* and a newline; with offset None the newline follows the size pair.
C20_PictureOpenMarker ==
    (last.op = "env" /\ last.x.env.tag = "Picture") =>
        LET params == last.x.env.params
            size == "(" \o params.size[1] \o "," \o params.size[2] \o ")"
        IN  IF params.offset.some
            THEN StartsWith(Fragment,
                            "\\begin{picture}" \o size \o "("
                                \o params.offset.x \o "," \o params.offset.y
                                \o ")\n")
            ELSE StartsWith(Fragment, "\\begin{picture}" \o size \o "\n")

C20_Witness ==
    /\ last.op = "env"
    /\ last.x.env.tag = "Picture"
    /\ last.x.env.params.offset.some
    /\ StartsWith(Fragment, "\\begin{picture}(3,4)(1,2)\n")

\* C21: cite(key, Some(sub)) appends \cite[sub]{key}, the bracket of the
\* sub-argument before the braced key, and cite(key, None) appends
\* \cite{key} with no bracket; in both cases the fragment ends with the
\* closing brace and the builder adds no newline.
C21_Cite ==
    last.op = "cite" =>
        LET sub == Rendered(1)
            key == Rendered(2)
        IN  /\ last.args[1].some =>
                   last.after = last.before \o "\\cite[" \o sub \o "]{" \o key \o "}"
            /\ ~last.args[1].some =>
                   last.after = last.before \o "\\cite{" \o key \o "}"
            /\ EndsWith(Fragment, "}")
            /\ Count(Fragment, "\n") = Count(sub, "\n") + Count(key, "\n")

C21_Witness ==
    /\ last.op = "cite"
    /\ last.args = <<Lit("p"), Lit("a")>>
    /\ content = "\\cite[p]{a}"

\* C22: DocumentClassOptions::NotTitlePage renders as the keyword
\* nottitlepage: set_document_class with an option list that begins with
\* NotTitlePage appends a line that begins with \documentclass[nottitlepage.
C22_NotTitlePageKeyword ==
    (/\ last.op = "set_document_class"
     /\ last.x.options # <<>>
     /\ last.x.options[1] = OptEnum("NotTitlePage")) =>
        \E close \in {",", "]"} :
            StartsWith(Fragment, "\\documentclass[nottitlepage" \o close)

\* what the calls calls[1], ..., calls[n], whose arguments are all &str,
\* append one after the other, each taken as applied alone to a new builder
RECURSIVE Composition(_, _)
Composition(calls, n) ==
    IF n = 0 THEN ""
    ELSE Composition(calls, n - 1)
             \o LiteralCall(new.content, calls[n].op, calls[n].x, calls[n].args)

\* the calls made on the caller's builder have all returned and none of
\* them was given a closure
AllLiteral ==
    /\ Len(stack) = 1
    /\ \A i \in 1..Len(trace) :
           \A j \in 1..Len(trace[i].args) : ~trace[i].args[j].fn

\* C23: building is compositional: after any sequence of calls on a new
\* builder, build_document() is the concatenation, in call order, of what
\* each call appends when made alone on a new builder (a second
\* set_document_class adds a second line); and the fragment of every call,
\* closures included, is the one the call appends to an empty buffer.
C23_Compositional ==
    /\ AllLiteral => build_document(stack[1]) = Composition(trace, Len(trace))
    /\ last.op # "" =>
           Fragment = LiteralCall(new.content, last.op, last.x, RenderedArgs)

\* set_document_class called twice
C23_Witness ==
    /\ Len(trace) = 2
    /\ trace[1].op = "set_document_class"
    /\ trace[2].op = "set_document_class"
    /\ build_document(stack[1])
           = "\\documentclass{article}\n\\documentclass[fleqn]{article}\n"

\* the first line of s, its newline included (s itself when it has none)
FirstLine(s) ==
    LET ends == {i \in 1..Len(s) : SubSeq(s, i, i) = "\n"}
    IN  IF ends = {} THEN s
        ELSE SubSeq(s, 1, CHOOSE i \in ends : \A j \in ends : i <= j)

\* C24: between its open line and its close line env appends the rendered
\* content followed by exactly one newline, whatever the variant and the
\* content: nothing is stripped and no newline is dropped, so empty content
\* leaves one empty line and content that ends in a newline leaves a blank
\* line before \end{K}.
C24_OneNewlineAfterContent ==
    last.op = "env" =>
        LET close == "\\end{" \o Environment_to_string(last.x.env) \o "}\n"
            open == FirstLine(Fragment)
            body == Rendered(1)
        IN  /\ Fragment = open \o body \o "\n" \o close
            /\ Count(Fragment, "\n") = Count(body, "\n") + 3
            /\ body = "" => Fragment = open \o "\n" \o close
            /\ EndsWith(body, "\n") => EndsWith(Fragment, "\n\n" \o close)

\* an environment whose content is an environment with empty content: the
\* inner one holds one empty line, the outer one a blank line before its end
C24_Witness ==
    /\ last.op = "env"
    /\ last.depth = 1
    /\ last.x.env.tag = "Tabular"
    /\ EndsWith(Rendered(1), "}\n\n\\end{verbatim}\n")
    /\ EndsWith(Fragment, "\n\n\\end{tabular}\n")

\* the commands that write inside a line
InlineCommands ==
    {"text_bold", "text_italic", "text_underline", "footnote", "cite",
     "ref_label", "text_color", "hspace", "vspace"}

\* newlines in the rendered arguments of the last call
RECURSIVE ArgNewlines(_)
ArgNewlines(n) ==
    IF n = 0 THEN 0
    ELSE ArgNewlines(n - 1)
             + (IF last.args[n].some THEN Count(Rendered(n), "\n") ELSE 0)

\* C25: the commands fall into two fixed groups by line ending: text_bold,
\* text_italic, text_underline, footnote, cite, ref_label, text_color, hspace
\* and vspace append a fragment that ends with the closing brace, the builder
\* adding no newline; every other command but add_literal appends a fragment
\* that ends with one newline that the builder adds after the command's last
\* character; the arguments and the buffer make no difference.
C25_LineEndingGroups ==
    last.op \notin {"", "add_literal"} =>
        IF last.op \in InlineCommands
        THEN /\ EndsWith(Fragment, "}")
             /\ Count(Fragment, "\n") = ArgNewlines(Len(last.args))
        ELSE /\ EndsWith(Fragment, "\n")
             /\ ~EndsWith(Fragment, "\n\n")
             /\ Count(Fragment, "\n") > ArgNewlines(Len(last.args))

\* a footnote whose text, written by a closure, ends in a newline
C25_Witness ==
    /\ last.op = "footnote"
    /\ last.args = <<Fn>>
    /\ Fragment = "\\footnote{\\end{document}\n}"
====
